---- MODULE Spec2Model ----
(***************************************************************************)
(* Model of src/TrutTableCode.py: class LogicExpressionParser.             *)
(*   tokenize_expression          text            -> tokens                *)
(*   convert_to_postfix           tokens          -> postfix tokens        *)
(*   evaluate_postfix_expression  postfix, values -> (value, trace)        *)
(*   create_truth_table           text            -> headers, rows, verdict*)
(* A text is a sequence of one-character strings; tokens and labels are    *)
(* strings.  A Python exception is a record field err naming its class.    *)
(***************************************************************************)
EXTENDS Integers, Sequences, FiniteSets, TLC

\* ------------------------------------------------------------------ bounds
MaxLen == 6      \* longest expression over P, Q, R and all operators given to create_truth_table
MaxLong == 11    \* longest expression over P, NOT, IMPLIES and parentheses given to create_truth_table
MaxAny == 3      \* longest arbitrary word sequence given to create_truth_table
MaxPostfix == 4  \* longest postfix sequence given to the stepwise evaluator
MaxWords == 2    \* longest word sequence given to the tokenizer in two letter cases

\* ------------------------------------------------- tables of __init__
variables_set == {"P", "Q", "R"}

OperatorNames == {"NOT", "AND", "OR", "IMPLIES", "IFF"}

\* self.operators[token].func for the unary operator
func1(token, a) == ~a

\* self.operators[token].func for the binary operators
func2(token, a, b) ==
  CASE token = "AND" -> a /\ b
    [] token = "OR" -> a \/ b
    [] token = "IMPLIES" -> (~a) \/ b
    [] token = "IFF" -> a = b

symbol_map == [k \in {"~", "^", "or", "->", "<->"} |->
  CASE k = "~" -> "NOT"
    [] k = "^" -> "AND"
    [] k = "or" -> "OR"
    [] k = "->" -> "IMPLIES"
    [] k = "<->" -> "IFF"]

\* variant of precedence_levels: OR one level below AND
precedence_levels_or_low == [k \in OperatorNames |->
  CASE k = "NOT" -> 3
    [] k = "AND" -> 2
    [] k = "OR" -> 1
    [] k = "IMPLIES" -> 1
    [] k = "IFF" -> 1]

precedence_levels == [k \in OperatorNames |->
  CASE k = "NOT" -> 3
    [] k = "AND" -> 2
    [] k = "OR" -> 2
    [] k = "IMPLIES" -> 1
    [] k = "IFF" -> 1]

associativity_map == [k \in OperatorNames |->
  IF k = "NOT" THEN "RIGHT" ELSE "LEFT"]

\* ------------------------------------------------------ strings, str.upper
LowerLetters == <<"a","b","c","d","e","f","g","h","i","j","k","l","m",
                  "n","o","p","q","r","s","t","u","v","w","x","y","z">>
UpperLetters == <<"A","B","C","D","E","F","G","H","I","J","K","L","M",
                  "N","O","P","Q","R","S","T","U","V","W","X","Y","Z">>

UpperChar(c) ==
  IF \E i \in 1..26 : LowerLetters[i] = c
  THEN UpperLetters[CHOOSE i \in 1..26 : LowerLetters[i] = c]
  ELSE c

LowerChar(c) ==
  IF \E i \in 1..26 : UpperLetters[i] = c
  THEN LowerLetters[CHOOSE i \in 1..26 : UpperLetters[i] = c]
  ELSE c

RECURSIVE Join(_)
\* the string whose characters are cs
Join(cs) == IF cs = <<>> THEN "" ELSE Head(cs) \o Join(Tail(cs))

\* value.upper()
Upper(cs) == [i \in 1..Len(cs) |-> UpperChar(cs[i])]

\* ------------------------------------------------- tokenize_expression
\* token_spec: the alternatives of the regex in the order re tries them
\* (WHITESPACE and UNKNOWN are character classes, handled in MatchAt)
token_spec == <<
  [kind |-> "LPAREN",   lit |-> <<"(">>],
  [kind |-> "RPAREN",   lit |-> <<")">>],
  [kind |-> "OPERATOR", lit |-> <<"<","-",">">>],
  [kind |-> "OPERATOR", lit |-> <<"-",">">>],
  [kind |-> "OPERATOR", lit |-> <<"~">>],
  [kind |-> "OPERATOR", lit |-> <<"^">>],
  [kind |-> "OPERATOR", lit |-> <<"o","r">>],
  [kind |-> "OPERATOR", lit |-> <<"A","N","D">>],
  [kind |-> "OPERATOR", lit |-> <<"O","R">>],
  [kind |-> "OPERATOR", lit |-> <<"N","O","T">>],
  [kind |-> "OPERATOR", lit |-> <<"I","M","P","L","I","E","S">>],
  [kind |-> "OPERATOR", lit |-> <<"I","F","F">>],
  [kind |-> "VARIABLE", lit |-> <<"P">>],
  [kind |-> "VARIABLE", lit |-> <<"Q">>],
  [kind |-> "VARIABLE", lit |-> <<"R">>],
  [kind |-> "VARIABLE", lit |-> <<"p">>],
  [kind |-> "VARIABLE", lit |-> <<"q">>],
  [kind |-> "VARIABLE", lit |-> <<"r">>],
  [kind |-> "CONSTANT", lit |-> <<"T","R","U","E">>],
  [kind |-> "CONSTANT", lit |-> <<"F","A","L","S","E">>] >>

IsSpace(c) == c \in {" ", "\t", "\n"}

PrefixAt(text, i, lit) ==
  /\ i + Len(lit) - 1 <= Len(text)
  /\ \A j \in 1..Len(lit) : text[i + j - 1] = lit[j]

RECURSIVE SpaceRun(_, _)
\* length of the whitespace run \s+ that starts at i
SpaceRun(text, i) ==
  IF i <= Len(text) /\ IsSpace(text[i]) THEN 1 + SpaceRun(text, i + 1) ELSE 0

\* the match re.finditer finds at position i: match.lastgroup and match.group()
MatchAt(text, i) ==
  LET hits == {n \in 1..Len(token_spec) : PrefixAt(text, i, token_spec[n].lit)}
  IN IF hits # {}
     THEN LET n == CHOOSE m \in hits : \A h \in hits : m <= h
          IN [kind |-> token_spec[n].kind, value |-> token_spec[n].lit]
     ELSE IF IsSpace(text[i])
     THEN [kind |-> "WHITESPACE", value |-> SubSeq(text, i, i + SpaceRun(text, i) - 1)]
     ELSE [kind |-> "UNKNOWN", value |-> <<text[i]>>]

RECURSIVE TokenizeFrom(_, _, _)
\* the loop over the matches, from position i on, with the tokens so far
TokenizeFrom(text, i, tokens) ==
  IF i > Len(text) THEN [err |-> "none", tokens |-> tokens]
  ELSE LET m == MatchAt(text, i)
           up == Join(Upper(m.value))
           nxt == i + Len(m.value)
       IN CASE m.kind = "OPERATOR" ->
                 TokenizeFrom(text, nxt,
                   Append(tokens, IF up \in DOMAIN symbol_map THEN symbol_map[up] ELSE up))
            [] m.kind \in {"VARIABLE", "CONSTANT", "LPAREN", "RPAREN"} ->
                 TokenizeFrom(text, nxt, Append(tokens, up))
            [] m.kind = "WHITESPACE" -> TokenizeFrom(text, nxt, tokens)
            [] OTHER -> [err |-> "ValueError", tokens |-> <<>>]

tokenize_expression(expression) == TokenizeFrom(expression, 1, <<>>)

\* --------------------------------------------------- convert_to_postfix
IsOperand(token) == token \in variables_set \/ token \in {"TRUE", "FALSE"}

Top(stack) == stack[Len(stack)]

Pop(stack) == SubSeq(stack, 1, Len(stack) - 1)

\* variant of ShouldPop: a LEFT operator pops only strictly higher precedence
ShouldPop_strict(token, operators) ==
  /\ operators # <<>>
  /\ Top(operators) \in OperatorNames
  /\ precedence_levels[token] < precedence_levels[Top(operators)]

\* the condition of the while loop on an operator token
ShouldPop(token, operators) ==
  /\ operators # <<>>
  /\ Top(operators) \in OperatorNames
  /\ \/ /\ associativity_map[token] = "LEFT"
        /\ precedence_levels[token] <= precedence_levels[Top(operators)]
     \/ /\ associativity_map[token] = "RIGHT"
        /\ precedence_levels[token] < precedence_levels[Top(operators)]

RECURSIVE PopOperators(_, _, _)
\* the while loop on an operator token, then operators.append(token)
PopOperators(token, output, operators) ==
  IF ShouldPop(token, operators)
  THEN PopOperators(token, Append(output, Top(operators)), Pop(operators))
  ELSE [output |-> output, operators |-> Append(operators, token)]

RECURSIVE PopToLParen(_, _)
\* the while loop on ')', then operators.pop(), which raises on an empty list
PopToLParen(output, operators) ==
  IF operators # <<>> /\ Top(operators) # "("
  THEN PopToLParen(Append(output, Top(operators)), Pop(operators))
  ELSE IF operators = <<>>
       THEN [err |-> "IndexError", msg |-> "pop from empty list",
             output |-> output, operators |-> operators]
       ELSE [err |-> "none", msg |-> "",
             output |-> output, operators |-> Pop(operators)]

RECURSIVE DrainOperators(_, _)
\* the final while loop
DrainOperators(output, operators) ==
  IF operators = <<>> THEN [err |-> "none", msg |-> "", output |-> output]
  ELSE IF Top(operators) \in {"(", ")"}
       THEN [err |-> "ValueError", msg |-> "Mismatched parentheses", output |-> <<>>]
       ELSE DrainOperators(Append(output, Top(operators)), Pop(operators))

RECURSIVE ConvertFrom(_, _, _, _)
\* the for loop over the tokens, from index i on
ConvertFrom(tokens, i, output, operators) ==
  IF i > Len(tokens) THEN DrainOperators(output, operators)
  ELSE LET token == tokens[i]
       IN CASE IsOperand(token) ->
                 ConvertFrom(tokens, i + 1, Append(output, token), operators)
            [] token \in OperatorNames ->
                 LET r == PopOperators(token, output, operators)
                 IN ConvertFrom(tokens, i + 1, r.output, r.operators)
            [] token = "(" ->
                 ConvertFrom(tokens, i + 1, output, Append(operators, token))
            [] token = ")" ->
                 LET r == PopToLParen(output, operators)
                 IN IF r.err # "none"
                    THEN [err |-> r.err, msg |-> r.msg, output |-> <<>>]
                    ELSE ConvertFrom(tokens, i + 1, r.output, r.operators)
            [] OTHER ->
                 [err |-> "ValueError", msg |-> "Unknown token", output |-> <<>>]

convert_to_postfix(tokens) == ConvertFrom(tokens, 1, <<>>, <<>>)

\* ------------------------------------------ evaluate_postfix_expression
operator_symbol(token) ==
  CASE token = "AND" -> "^"
    [] token = "OR" -> "v"
    [] token = "IMPLIES" -> "->"
    [] token = "IFF" -> "<->"
    [] OTHER -> token

Raised(st, err, msg) == [st EXCEPT !.err = err, !.msg = msg]

\* variant of EvalToken: operands are appended to results as well
EvalToken_trace_operands(st, token, values) ==
  CASE token \in variables_set ->
         IF token \in DOMAIN values
         THEN [st EXCEPT !.stack = Append(@, [expr |-> token, val |-> values[token]]),
                         !.results = Append(@, [expr |-> token, val |-> values[token]])]
         ELSE Raised(st, "KeyError", token)
    [] token \in {"TRUE", "FALSE"} ->
         [st EXCEPT !.stack = Append(@, [expr |-> token, val |-> (token = "TRUE")]),
                    !.results = Append(@, [expr |-> token, val |-> (token = "TRUE")])]
    [] token = "NOT" ->
         IF st.stack = <<>> THEN Raised(st, "IndexError", "pop from empty list")
         ELSE LET a == Top(st.stack)
                  e == [expr |-> "~" \o a.expr, val |-> func1(token, a.val)]
              IN [st EXCEPT !.results = Append(@, e),
                            !.stack = Append(Pop(st.stack), e)]
    [] token \in OperatorNames \ {"NOT"} ->
         IF Len(st.stack) < 2 THEN Raised(st, "IndexError", "pop from empty list")
         ELSE LET b == Top(st.stack)
                  a == Top(Pop(st.stack))
                  e == [expr |-> a.expr \o " " \o operator_symbol(token) \o " " \o b.expr,
                        val |-> func2(token, a.val, b.val)]
              IN [st EXCEPT !.results = Append(@, e),
                            !.stack = Append(Pop(Pop(st.stack)), e)]
    [] OTHER -> Raised(st, "ValueError", "Unknown token")

\* one iteration of the for loop: st = [err, msg, stack, results]
EvalToken(st, token, values) ==
  CASE token \in variables_set ->
         IF token \in DOMAIN values
         THEN [st EXCEPT !.stack = Append(@, [expr |-> token, val |-> values[token]])]
         ELSE Raised(st, "KeyError", token)
    [] token \in {"TRUE", "FALSE"} ->
         [st EXCEPT !.stack = Append(@, [expr |-> token, val |-> (token = "TRUE")])]
    [] token = "NOT" ->
         IF st.stack = <<>> THEN Raised(st, "IndexError", "pop from empty list")
         ELSE LET a == Top(st.stack)
                  e == [expr |-> "~" \o a.expr, val |-> func1(token, a.val)]
              IN [st EXCEPT !.results = Append(@, e),
                            !.stack = Append(Pop(st.stack), e)]
    [] token \in OperatorNames \ {"NOT"} ->
         IF Len(st.stack) < 2 THEN Raised(st, "IndexError", "pop from empty list")
         ELSE LET b == Top(st.stack)
                  a == Top(Pop(st.stack))
                  e == [expr |-> a.expr \o " " \o operator_symbol(token) \o " " \o b.expr,
                        val |-> func2(token, a.val, b.val)]
              IN [st EXCEPT !.results = Append(@, e),
                            !.stack = Append(Pop(Pop(st.stack)), e)]
    [] OTHER -> Raised(st, "ValueError", "Unknown token")

EvalStart == [err |-> "none", msg |-> "", stack |-> <<>>, results |-> <<>>]

\* the check after the loop and the return value
EvalFinish(st) ==
  IF st.err # "none" THEN [err |-> st.err, msg |-> st.msg, value |-> FALSE, results |-> <<>>]
  ELSE IF Len(st.stack) # 1
       THEN [err |-> "ValueError", msg |-> "Invalid postfix expression",
             value |-> FALSE, results |-> <<>>]
       ELSE [err |-> "none", msg |-> "", value |-> st.stack[1].val, results |-> st.results]

RECURSIVE EvalFrom(_, _, _, _)
\* the for loop over the postfix tokens, from index i on
EvalFrom(postfix_tokens, i, st, values) ==
  IF i > Len(postfix_tokens) \/ st.err # "none" THEN st
  ELSE EvalFrom(postfix_tokens, i + 1, EvalToken(st, postfix_tokens[i], values), values)

evaluate_postfix_expression(postfix_tokens, values) ==
  EvalFinish(EvalFrom(postfix_tokens, 1, EvalStart, values))

\* --------------------------------------------------- create_truth_table
\* sorted(...) of a set of variable names
Sorted(S) == SelectSeq(<<"P", "Q", "R">>, LAMBDA v : v \in S)

RECURSIVE Product_first_fastest(_)
\* variant of Product: the first position varies fastest
Product_first_fastest(k) ==
  IF k = 0 THEN << <<>> >>
  ELSE LET shorter == Product_first_fastest(k - 1)
       IN [n \in 1..(2 * Len(shorter)) |->
             <<(n % 2 = 0)>> \o shorter[(n + 1) \div 2]]

RECURSIVE Product(_)
\* list(itertools.product([False, True], repeat=k))
Product(k) ==
  IF k = 0 THEN << <<>> >>
  ELSE LET shorter == Product(k - 1)
           pairs == [n \in 1..(2 * Len(shorter)) |->
                       Append(shorter[(n + 1) \div 2], (n % 2 = 0))]
       IN pairs

\* dict(zip(vars, combo))
Zip(vars, combo) ==
  [v \in {vars[j] : j \in 1..Len(vars)} |->
     combo[CHOOSE j \in 1..Len(vars) : vars[j] = v]]

RECURSIVE Dedup(_, _)
\* list(dict.fromkeys(labels)): the labels in order of first appearance
Dedup(labels, seen) ==
  IF labels = <<>> THEN <<>>
  ELSE IF Head(labels) \in seen THEN Dedup(Tail(labels), seen)
       ELSE <<Head(labels)>> \o Dedup(Tail(labels), seen \cup {Head(labels)})

Labels(trace) == [i \in 1..Len(trace) |-> trace[i].expr]

\* sub_results.get(sub, False) of the dict comprehension: last entry wins
Lookup(intermediate, sub) ==
  LET at == {i \in 1..Len(intermediate) : intermediate[i].expr = sub}
  IN IF at = {} THEN FALSE
     ELSE intermediate[CHOOSE i \in at : \A j \in at : j <= i].val

\* the cells of one printed row: variable columns, then sub-expression columns
RowCells(vars, hdrs, vals, intermediate) ==
  [c \in 1..Len(hdrs) |->
     IF c <= Len(vars) THEN vals[vars[c]] ELSE Lookup(intermediate, hdrs[c])]

\* variant of NextTautology: the verdict follows the latest row
NextTautology_latest(taut, final_result) == final_result

\* tautology after a row whose final value is final_result
NextTautology(taut, final_result) == IF ~final_result THEN FALSE ELSE taut

\* ------------------------------------------------------------- inputs
Words == {"P", "Q", "R", "TRUE", "FALSE", "NOT", "AND", "OR", "IMPLIES", "IFF",
          "(", ")", "~", "^", "->", "<->", "&"}

\* the characters of a word as typed in upper case
Chars(w) ==
  CASE w = "P" -> <<"P">>
    [] w = "Q" -> <<"Q">>
    [] w = "R" -> <<"R">>
    [] w = "TRUE" -> <<"T","R","U","E">>
    [] w = "FALSE" -> <<"F","A","L","S","E">>
    [] w = "NOT" -> <<"N","O","T">>
    [] w = "AND" -> <<"A","N","D">>
    [] w = "OR" -> <<"O","R">>
    [] w = "IMPLIES" -> <<"I","M","P","L","I","E","S">>
    [] w = "IFF" -> <<"I","F","F">>
    [] w = "(" -> <<"(">>
    [] w = ")" -> <<")">>
    [] w = "~" -> <<"~">>
    [] w = "^" -> <<"^">>
    [] w = "->" -> <<"-",">">>
    [] w = "<->" -> <<"<","-",">">>
    [] w = "&" -> <<"&">>

Casings == {"upper", "lower", "capital"}

\* a word typed in a letter case; only operator words and variable letters vary
Typed(w, casing) ==
  LET cs == Chars(w)
  IN IF w \notin OperatorNames \cup variables_set \/ casing = "upper" THEN cs
     ELSE IF casing = "lower" THEN [i \in 1..Len(cs) |-> LowerChar(cs[i])]
     ELSE [i \in 1..Len(cs) |-> IF i = 1 THEN cs[i] ELSE LowerChar(cs[i])]

RECURSIVE Text(_, _)
\* the words ws, typed in the casings cases, separated by single spaces
Text(ws, cases) ==
  IF ws = <<>> THEN <<>>
  ELSE IF Len(ws) = 1 THEN Typed(ws[1], cases[1])
  ELSE Typed(ws[1], cases[1]) \o <<" ">> \o Text(Tail(ws), Tail(cases))

UpperText(ws) == Text(ws, [i \in 1..Len(ws) |-> "upper"])

SeqsUpTo(S, n) == UNION {[1..m -> S] : m \in 0..n}

BinaryNames == OperatorNames \ {"NOT"}

\* the expressions of each length up to max over the operands V and the binary
\* operators B:  E ::= v | NOT E | ( E ) | E op E
Expressions(V, B, max) ==
  LET E[n \in 0..max] ==
        IF n = 0 THEN {}
        ELSE IF n = 1 THEN {<<v>> : v \in V}
        ELSE {<<"NOT">> \o e : e \in E[n - 1]}
             \cup {<<"(">> \o e \o <<")">> : e \in E[n - 2]}
             \cup UNION {{l \o <<op>> \o r : l \in E[i], op \in B, r \in E[n - 1 - i]}
                           : i \in 1..(n - 2)}
  IN UNION {E[n] : n \in 1..max}

TableVocabulary == {"P", "Q", "R", "TRUE", "FALSE", "NOT", "AND", "OR", "IMPLIES", "IFF",
                    "(", ")", "&"}

\* the texts given to create_truth_table
TableInputs ==
  {UpperText(ws) : ws \in SeqsUpTo(TableVocabulary, MaxAny)
                            \cup Expressions(variables_set, BinaryNames, MaxLen)
                            \cup Expressions({"P"}, {"IMPLIES"}, MaxLong)}

EvalVocabulary == variables_set \cup {"TRUE", "FALSE"} \cup OperatorNames

\* ---------------------------------------------------------------- state
VARIABLES
  expression,      \* create_truth_table: the text
  pc,              \* position in the running function
  tokens,          \* create_truth_table: tokens
  vars_in_expr,    \* create_truth_table: vars_in_expr
  combinations,    \* create_truth_table: combinations
  postfix,         \* outcome of convert_to_postfix(tokens) in the first try block
  sub_expressions, \* create_truth_table: sub_expressions
  headers,         \* create_truth_table: headers
  rows,            \* the rows printed so far, each with its assignment and trace
  tautology,       \* create_truth_table: tautology
  printed,         \* what create_truth_table has printed, in order
  outcome,         \* how create_truth_table ended
  variant,         \* tokenize_expression: the text in another letter case
  tokenized,       \* tokenize_expression: outcomes for expression and variant
  postfix_tokens,  \* evaluate_postfix_expression: postfix_tokens
  values,          \* evaluate_postfix_expression: values
  idx,             \* evaluate_postfix_expression: index of the next token
  st,              \* evaluate_postfix_expression: err, stack, results
  evaluated        \* evaluate_postfix_expression: outcome

table_vars == <<expression, pc, tokens, vars_in_expr, combinations, postfix,
                sub_expressions, headers, rows, tautology, printed, outcome>>
tok_vars == <<variant, tokenized>>
eval_vars == <<postfix_tokens, values, idx, st, evaluated>>
vars == <<table_vars, tok_vars, eval_vars>>

NoOutcome == [status |-> "running", value |-> FALSE, exc |-> "none"]
Returned(v) == [status |-> "returned", value |-> v, exc |-> "none"]
Propagated(exc) == [status |-> "raised", value |-> FALSE, exc |-> exc]
NotRun == [err |-> "notrun"]

TableIdle ==
  /\ tokens = <<>> /\ vars_in_expr = <<>> /\ combinations = <<>>
  /\ postfix = NotRun /\ sub_expressions = <<>> /\ headers = <<>>
  /\ rows = <<>> /\ tautology = TRUE /\ printed = <<>> /\ outcome = NoOutcome
TokIdle == variant = <<>> /\ tokenized = [a |-> NotRun, b |-> NotRun]
EvalIdle ==
  /\ postfix_tokens = <<>> /\ values = <<>> /\ idx = 1
  /\ st = EvalStart /\ evaluated = NotRun

\* ------------------------------------- create_truth_table, step by step
Init ==
  /\ expression \in TableInputs
  /\ pc = "tokenize"
  /\ TableIdle /\ TokIdle /\ EvalIdle

\* tokens = self.tokenize_expression(expression); its ValueError propagates
Tokenize ==
  /\ pc = "tokenize"
  /\ LET r == tokenize_expression(expression)
     IN IF r.err # "none"
        THEN /\ outcome' = Propagated(r.err)
             /\ pc' = "done"
             /\ tokens' = tokens
        ELSE /\ tokens' = r.tokens
             /\ pc' = "combinations"
             /\ outcome' = outcome
  /\ UNCHANGED <<expression, vars_in_expr, combinations, postfix, sub_expressions,
                 headers, rows, tautology, printed, tok_vars, eval_vars>>

\* vars_in_expr, combinations and the "if not combinations" return
Combinations ==
  /\ pc = "combinations"
  /\ LET vs == Sorted(variables_set \cap {tokens[i] : i \in 1..Len(tokens)})
         cs == Product(Len(vs))
     IN /\ vars_in_expr' = vs
        /\ combinations' = cs
        /\ IF cs = <<>>
           THEN /\ printed' = Append(printed, "No variables found in the expression.")
                /\ outcome' = Returned(FALSE)
                /\ pc' = "done"
           ELSE /\ pc' = "convert"
                /\ UNCHANGED <<printed, outcome>>
  /\ UNCHANGED <<expression, tokens, postfix, sub_expressions, headers, rows,
                 tautology, tok_vars, eval_vars>>

\* first try block: self.convert_to_postfix(tokens), any exception caught
Convert ==
  /\ pc = "convert"
  /\ postfix' = convert_to_postfix(tokens)
  /\ IF postfix'.err # "none"
     THEN /\ printed' = Append(printed, "Error during evaluation")
          /\ outcome' = Returned(FALSE)
          /\ pc' = "done"
     ELSE /\ pc' = "discover"
          /\ UNCHANGED <<printed, outcome>>
  /\ UNCHANGED <<expression, tokens, vars_in_expr, combinations, sub_expressions,
                 headers, rows, tautology, tok_vars, eval_vars>>

\* first try block: the evaluation with combinations[0]; then headers,
\* max_length (max() of an empty list raises ValueError), the header lines
\* and tautology = True
Discover ==
  /\ pc = "discover"
  /\ LET initial_values == Zip(vars_in_expr, combinations[1])
         r == evaluate_postfix_expression(postfix.output, initial_values)
         hs == vars_in_expr \o Dedup(Labels(r.results), {})
     IN IF r.err # "none"
        THEN /\ printed' = Append(printed, "Error during evaluation")
             /\ outcome' = Returned(FALSE)
             /\ pc' = "done"
             /\ UNCHANGED <<sub_expressions, headers>>
        ELSE /\ sub_expressions' = r.results
             /\ headers' = hs
             /\ IF hs = <<>>
                THEN /\ outcome' = Propagated("ValueError")
                     /\ pc' = "done"
                     /\ printed' = printed
                ELSE /\ printed' = Append(printed, "header")
                     /\ pc' = "rows"
                     /\ outcome' = outcome
  /\ tautology' = TRUE
  /\ UNCHANGED <<expression, tokens, vars_in_expr, combinations, postfix, rows,
                 tok_vars, eval_vars>>

\* one iteration of "for combo in combinations"
EmitRow ==
  /\ pc = "rows"
  /\ Len(rows) < Len(combinations)
  /\ LET combo == combinations[Len(rows) + 1]
         vals == Zip(vars_in_expr, combo)
         c == convert_to_postfix(tokens)
         r == IF c.err # "none"
              THEN [err |-> c.err, msg |-> c.msg, value |-> FALSE, results |-> <<>>]
              ELSE evaluate_postfix_expression(c.output, vals)
     IN IF r.err = "ValueError"
        THEN /\ printed' = Append(printed, "Error evaluating expression")
             /\ outcome' = Returned(FALSE)
             /\ pc' = "done"
             /\ UNCHANGED <<rows, tautology>>
        ELSE IF r.err # "none"
        THEN /\ outcome' = Propagated(r.err)
             /\ pc' = "done"
             /\ UNCHANGED <<rows, tautology, printed>>
        ELSE /\ rows' = Append(rows, [values |-> vals,
                                      cells |-> RowCells(vars_in_expr, headers, vals, r.results),
                                      final |-> r.value,
                                      intermediate |-> r.results])
             /\ printed' = Append(printed, "row")
             /\ tautology' = NextTautology(tautology, r.value)
             /\ UNCHANGED <<pc, outcome>>
  /\ UNCHANGED <<expression, tokens, vars_in_expr, combinations, postfix,
                 sub_expressions, headers, tok_vars, eval_vars>>

\* return tautology
Return ==
  /\ pc = "rows"
  /\ Len(rows) = Len(combinations)
  /\ outcome' = Returned(tautology)
  /\ pc' = "done"
  /\ UNCHANGED <<expression, tokens, vars_in_expr, combinations, postfix,
                 sub_expressions, headers, rows, tautology, printed, tok_vars, eval_vars>>

Next == Tokenize \/ Combinations \/ Convert \/ Discover \/ EmitRow \/ Return

Spec == Init /\ [][Next]_vars

\* --------------------------- evaluate_postfix_expression, token by token
EvalInit ==
  /\ postfix_tokens \in SeqsUpTo(EvalVocabulary, MaxPostfix)
  /\ values \in [{"P", "Q"} -> BOOLEAN]
  /\ idx = 1 /\ st = EvalStart /\ evaluated = NotRun
  /\ pc = "eval"
  /\ expression = <<>>
  /\ TableIdle /\ TokIdle

\* one iteration of "for token in postfix_tokens"
EvalStep ==
  /\ pc = "eval"
  /\ st.err = "none"
  /\ idx <= Len(postfix_tokens)
  /\ st' = EvalToken(st, postfix_tokens[idx], values)
  /\ idx' = idx + 1
  /\ UNCHANGED <<postfix_tokens, values, evaluated, pc, table_vars, tok_vars>>

\* the loop has ended or raised: the length check and the return
EvalReturn ==
  /\ pc = "eval"
  /\ st.err # "none" \/ idx > Len(postfix_tokens)
  /\ evaluated' = EvalFinish(st)
  /\ pc' = "done"
  /\ UNCHANGED <<postfix_tokens, values, idx, st, expression, tokens, vars_in_expr,
                 combinations, postfix, sub_expressions, headers, rows, tautology,
                 printed, outcome, tok_vars>>

EvalNext == EvalStep \/ EvalReturn

SpecEval == EvalInit /\ [][EvalNext]_vars

\* ------------------------------ tokenize_expression in two letter cases
TokInit ==
  /\ \E n \in 1..MaxWords : \E ws \in [1..n -> Words] :
       \E c1 \in [1..n -> Casings] : \E c2 \in [1..n -> Casings] :
         /\ expression = Text(ws, c1)
         /\ variant = Text(ws, c2)
  /\ tokenized = [a |-> NotRun, b |-> NotRun]
  /\ pc = "tokenize"
  /\ TableIdle /\ EvalIdle

TokenizeExpression ==
  /\ pc = "tokenize"
  /\ tokenized.a = NotRun
  /\ tokenized' = [tokenized EXCEPT !.a = tokenize_expression(expression)]
  /\ UNCHANGED <<variant, table_vars, eval_vars>>

TokenizeVariant ==
  /\ pc = "tokenize"
  /\ tokenized.b = NotRun
  /\ tokenized' = [tokenized EXCEPT !.b = tokenize_expression(variant)]
  /\ UNCHANGED <<variant, table_vars, eval_vars>>

TokNext == TokenizeExpression \/ TokenizeVariant

SpecTok == TokInit /\ [][TokNext]_vars

\* ------------------------------------------------ reference definitions
\* The grammar the claims speak of, as a recursive-descent evaluator:
\*   L1 ::= L2 ((IMPLIES | IFF) L2)*     L2 ::= L3 ((AND | OR) L3)*
\*   L3 ::= NOT L3 | atom                atom ::= variable | constant | ( L1 )
Fail == [ok |-> FALSE, v |-> FALSE, pos |-> 0]
Parsed(v, pos) == [ok |-> TRUE, v |-> v, pos |-> pos]

RECURSIVE RefAtom(_, _, _), RefNot(_, _, _), RefAndOr(_, _, _), RefAndOrTail(_, _, _),
          RefImplIff(_, _, _), RefImplIffTail(_, _, _)

RefAtom(ts, i, a) ==
  IF i > Len(ts) THEN Fail
  ELSE IF ts[i] \in variables_set THEN Parsed(a[ts[i]], i + 1)
  ELSE IF ts[i] = "TRUE" THEN Parsed(TRUE, i + 1)
  ELSE IF ts[i] = "FALSE" THEN Parsed(FALSE, i + 1)
  ELSE IF ts[i] = "("
       THEN LET r == RefImplIff(ts, i + 1, a)
            IN IF r.ok /\ r.pos <= Len(ts) /\ ts[r.pos] = ")"
               THEN Parsed(r.v, r.pos + 1) ELSE Fail
  ELSE Fail

RefNot(ts, i, a) ==
  IF i <= Len(ts) /\ ts[i] = "NOT"
  THEN LET r == RefNot(ts, i + 1, a)
       IN IF r.ok THEN Parsed(~r.v, r.pos) ELSE Fail
  ELSE RefAtom(ts, i, a)

RefAndOrTail(ts, acc, a) ==
  IF ~acc.ok THEN Fail
  ELSE IF acc.pos <= Len(ts) /\ ts[acc.pos] \in {"AND", "OR"}
       THEN LET r == RefNot(ts, acc.pos + 1, a)
            IN IF ~r.ok THEN Fail
               ELSE RefAndOrTail(ts, Parsed(IF ts[acc.pos] = "AND" THEN acc.v /\ r.v
                                            ELSE acc.v \/ r.v, r.pos), a)
  ELSE acc

RefAndOr(ts, i, a) == RefAndOrTail(ts, RefNot(ts, i, a), a)

RefImplIffTail(ts, acc, a) ==
  IF ~acc.ok THEN Fail
  ELSE IF acc.pos <= Len(ts) /\ ts[acc.pos] \in {"IMPLIES", "IFF"}
       THEN LET r == RefAndOr(ts, acc.pos + 1, a)
            IN IF ~r.ok THEN Fail
               ELSE RefImplIffTail(ts, Parsed(IF ts[acc.pos] = "IMPLIES" THEN (acc.v => r.v)
                                              ELSE (acc.v <=> r.v), r.pos), a)
  ELSE acc

RefImplIff(ts, i, a) == RefImplIffTail(ts, RefAndOr(ts, i, a), a)

RefParse(ts, a) ==
  LET r == RefImplIff(ts, 1, a)
  IN IF r.ok /\ r.pos = Len(ts) + 1 THEN r ELSE Fail

Assignments == [variables_set -> BOOLEAN]

WellFormed(ts) == RefParse(ts, [v \in variables_set |-> FALSE]).ok

Count(ts, n, w) == Cardinality({i \in 1..n : ts[i] = w})

\* some ')' has no '(' before it to match, or some '(' is never closed
Unbalanced(ts) ==
  \/ \E n \in 1..Len(ts) : Count(ts, n, ")") > Count(ts, n, "(")
  \/ Count(ts, Len(ts), "(") # Count(ts, Len(ts), ")")

Arity(token) == IF token = "NOT" THEN 1 ELSE 2

RECURSIVE Power2(_)
Power2(k) == IF k = 0 THEN 1 ELSE 2 * Power2(k - 1)

TokenSet == {tokens[i] : i \in 1..Len(tokens)}

\* create_truth_table printed its header and every row and returned
TableProduced ==
  /\ pc = "done" /\ outcome.status = "returned"
  /\ headers # <<>> /\ Len(rows) = Len(combinations)

LastColumnTrue(row) == row.cells[Len(headers)]

\* ---------------------------------------------------------------- claims

\* C1: for a well-formed infix expression and every assignment, evaluating
\* the converter's postfix gives the value of the expression parsed with NOT
\* tightest, then AND/OR on one level, then IMPLIES/IFF on one level, each
\* level grouping left to right, parentheses overriding.
C1_PostfixValueIsGrammarValue ==
  (pc = "discover" /\ WellFormed(tokens)) =>
    /\ postfix.err = "none"
    /\ \A a \in Assignments :
         LET r == evaluate_postfix_expression(postfix.output, a)
         IN r.err = "none" /\ r.value = RefParse(tokens, a).v

C1_Witness ==
  /\ pc = "discover"
  /\ tokens = <<"P", "IMPLIES", "NOT", "Q", "AND", "R">>
  /\ postfix.err = "none"

\* C2: with at least one variable, the verdict is true exactly when every
\* row printed so far is true in the last header column; the returned
\* verdict is that of all rows, so a false row is never undone.
C2_VerdictIsLastColumn ==
  /\ (pc = "rows" /\ Len(vars_in_expr) >= 1) =>
       (tautology <=> \A i \in 1..Len(rows) : LastColumnTrue(rows[i]))
  /\ (TableProduced /\ Len(vars_in_expr) >= 1) =>
       (outcome.value <=> \A i \in 1..Len(rows) : LastColumnTrue(rows[i]))

C2_Witness ==
  /\ TableProduced
  /\ Len(vars_in_expr) >= 1
  /\ Len(rows) >= 2
  /\ ~LastColumnTrue(rows[1])
  /\ LastColumnTrue(rows[Len(rows)])
  /\ outcome.value = FALSE

\* C3: with k in 1..3 variables and a successful header discovery, the row
\* loop never ends in an error, the table has 2^k rows, and row i holds the
\* assignment that counts i-1 in binary over the sorted variables, the last
\* variable being the lowest bit.
C3_RowsCountInOrder ==
  (headers # <<>> /\ Len(vars_in_expr) \in 1..3) =>
    /\ pc = "done" => (outcome.status = "returned" /\ Len(rows) = Power2(Len(vars_in_expr)))
    /\ \A i \in 1..Len(rows) : \A j \in 1..Len(vars_in_expr) :
         rows[i].values[vars_in_expr[j]] =
           (((i - 1) \div Power2(Len(vars_in_expr) - j)) % 2 = 1)
    /\ vars_in_expr = SelectSeq(<<"P", "Q", "R">>, LAMBDA v : v \in TokenSet)

C3_Witness ==
  /\ TableProduced
  /\ vars_in_expr = <<"P", "Q", "R">>
  /\ Len(rows) = 8

\* C4 (as claimed): an expression that tokenizes and has no variable is
\* reported as "no variables", with no header, no row and no exception.
C4_NoVariablesReported ==
  (pc = "done" /\ tokenize_expression(expression).err = "none"
               /\ TokenSet \cap variables_set = {}) =>
    /\ outcome.status = "returned"
    /\ printed = <<"No variables found in the expression.">>

\* C5 (as claimed): on unbalanced parentheses convert_to_postfix raises its
\* mismatched-parentheses ValueError.
C5_UnbalancedIsMismatchError ==
  (postfix # NotRun /\ Unbalanced(tokens)) =>
    (postfix.err = "ValueError" /\ postfix.msg = "Mismatched parentheses")

\* C6 (as claimed): when an operator meets a stack shorter than its arity,
\* evaluate_postfix_expression raises the error kind of its final length
\* check, ValueError.
C6_UnderflowIsValueError ==
  (/\ evaluated # NotRun
   /\ idx > 1
   /\ st.err # "none"
   /\ postfix_tokens[idx - 1] \in OperatorNames
   /\ Len(st.stack) < Arity(postfix_tokens[idx - 1])) =>
    evaluated.err = "ValueError"

\* C7 (as claimed): a text and the same text with operator words and variable
\* letters in another letter case tokenize to the same token sequence.
C7_CaseInsensitive ==
  (tokenized.a # NotRun /\ tokenized.b # NotRun) => tokenized.a = tokenized.b

\* C8 (as claimed): "P OR Q AND R" converts to P Q R AND OR and every row's
\* final value is P or (Q and R).
C8_OrQAndRGroupsRight ==
  (tokens = <<"P", "OR", "Q", "AND", "R">>) =>
    /\ postfix # NotRun => postfix.output = <<"P", "Q", "R", "AND", "OR">>
    /\ \A i \in 1..Len(rows) :
         rows[i].final = (rows[i].values["P"] \/ (rows[i].values["Q"] /\ rows[i].values["R"]))

\* C8 (amended): "P OR Q AND R" groups as (P OR Q) AND R: it converts to
\* P Q OR R AND and every row's final value is (P or Q) and R.
C8_OrQAndRGroupsLeft ==
  (tokens = <<"P", "OR", "Q", "AND", "R">>) =>
    /\ postfix # NotRun => (postfix.err = "none" /\ postfix.output = <<"P", "Q", "OR", "R", "AND">>)
    /\ \A i \in 1..Len(rows) :
         rows[i].final = ((rows[i].values["P"] \/ rows[i].values["Q"]) /\ rows[i].values["R"])
    /\ pc = "done" => Len(rows) = 8

C8_Witness ==
  /\ tokens = <<"P", "OR", "Q", "AND", "R">>
  /\ TableProduced
  /\ Len(rows) = 8

\* the postfix sequence being evaluated is one that evaluates successfully
EvaluatesOk == evaluate_postfix_expression(postfix_tokens, values).err = "none"

\* C9 (as claimed): in a successful evaluation every pair pushed on the
\* stack, operand or operator result, is appended to the trace.
C9_EveryPushTraced ==
  [][(EvaluatesOk /\ idx' = idx + 1) =>
       st'.results = Append(st.results, Top(st'.stack))]_vars

\* C9 (amended): in a successful evaluation the trace receives exactly the
\* pairs pushed for operator results, in order; operand pushes are not
\* recorded; the returned trace is the one so built.
C9_OperatorResultsTraced ==
  [][/\ (EvaluatesOk /\ idx' = idx + 1) =>
          /\ Len(st'.stack) >= 1
          /\ st'.results = IF postfix_tokens[idx] \in OperatorNames
                           THEN Append(st.results, Top(st'.stack))
                           ELSE st.results
     /\ (EvaluatesOk /\ evaluated' # evaluated) =>
          (evaluated'.err = "none" /\ evaluated'.results = st.results
             /\ evaluated'.value = Top(st.stack).val)]_vars

C9_Witness ==
  /\ evaluated # NotRun
  /\ evaluated.err = "none"
  /\ postfix_tokens = <<"P", "NOT", "Q", "AND">>
  /\ Len(evaluated.results) = 2

\* C10 (as claimed): in every row, trace entries with the same label have
\* the same value.
C10_SameLabelSameValue ==
  \A i \in 1..Len(rows) :
    \A m, n \in 1..Len(rows[i].intermediate) :
      rows[i].intermediate[m].expr = rows[i].intermediate[n].expr =>
        rows[i].intermediate[m].val = rows[i].intermediate[n].val

====
